---- MODULE Spec2Model ----
(***************************************************************************)
(* Model of communicator/ssh/communicator.go: the SSH communicator's       *)
(* Start (remote command with asynchronous completion) and Upload (scp     *)
(* sink-mode file transfer) operations, over one shared client connection. *)
(*                                                                         *)
(* Each command object is handed to Start once.  The library calls         *)
(* (NewSession, RequestPty, Start, Wait, StdinPipe, pipe writes) are the   *)
(* environment: each may succeed or fail.                                  *)
(***************************************************************************)
EXTENDS Integers, Sequences, FiniteSets, TLC

\* ---------------------------------------------------------------- bounds
MaxExitStatus == 2      \* remote exit codes are 1..MaxExitStatus
MaxPayload == 2         \* longest upload payload, in bytes

\* ---------------------------------------------------------------- inputs
Cmds == {"c1", "c2"}                      \* the caller's *packer.RemoteCmd objects
Command == [c \in Cmds |-> IF c = "c1" THEN "echo ok" ELSE "exit 7"]
InitStatuses == {0, 1}                    \* cmd.ExitStatus as the caller left it
ExitCodes == 1..MaxExitStatus
Bytes == {0, 65}                          \* 0 is the NUL byte
StatusBytes == {0, 1, 2}                  \* what the remote sink answers a phase with
Payloads == UNION {[1..n -> Bytes] : n \in 0..MaxPayload}
Paths == { <<"/", "h", "/", "u", "/", "o">>,   \* /h/u/o
           <<"o">>,                              \* o
           <<"d", "/", "/", "o">>,               \* d//o
           <<"/", "o">>,                         \* /o
           <<"d", "/", ".", ".", "/", "o">>,     \* d/../o
           <<"d", "/">> }                        \* d/

\* ------------------------------------------------- results of session.Wait
Running == [kind |-> "running", status |-> 0]
WaitNil == [kind |-> "nil", status |-> 0]
WaitOther == [kind |-> "other", status |-> 0]
ExitError(n) == [kind |-> "exit", status |-> n]
WaitResults == {WaitNil, WaitOther} \cup {ExitError(n) : n \in ExitCodes}

VARIABLES
    sessions,   \* the sessions the client has created, in creation order
    cmd,        \* [Cmds -> [ExitStatus, Exited]]: the RemoteCmd fields Start writes
    start,      \* [Cmds -> frame of the Start(cmd) invocation]
    gor,        \* [Cmds -> frame of the goroutine Start(cmd) spawns]
    up,         \* frame of the Upload invocation
    pipe,       \* the write-pipe Upload obtains from session.StdinPipe
    dl,         \* frame of the Download invocation
    reader      \* [Cmds -> frame of a caller goroutine polling cmd.Exited]

vars == <<sessions, cmd, start, gor, up, pipe, dl, reader>>

\* ------------------------------------------------------------- pure helpers
RECURSIVE Itoa(_)
\* decimal digits of n >= 0, as fmt prints an int
Itoa(n) == IF n < 10 THEN <<n>> ELSE Itoa(n \div 10) \o <<n % 10>>

RECURSIVE Atoi(_)
Atoi(ds) == IF ds = <<>> THEN 0 ELSE 10 * Atoi(SubSeq(ds, 1, Len(ds) - 1)) + ds[Len(ds)]

\* index of the last separator of p, 0 when there is none
LastSep(p) == IF \E i \in 1..Len(p) : p[i] = "/"
              THEN CHOOSE i \in 1..Len(p) : p[i] = "/" /\ \A j \in (i+1)..Len(p) : p[j] # "/"
              ELSE 0

RECURSIVE Segments(_)
\* the non-empty runs between separators
Segments(p) ==
    IF p = <<>> THEN <<>>
    ELSE IF p[1] = "/" THEN Segments(Tail(p))
    ELSE LET n == IF \E i \in 1..Len(p) : p[i] = "/"
                  THEN (CHOOSE i \in 1..Len(p) : p[i] = "/" /\ \A j \in 1..(i-1) : p[j] # "/") - 1
                  ELSE Len(p)
         IN <<SubSeq(p, 1, n)>> \o Segments(SubSeq(p, n + 1, Len(p)))

RECURSIVE CleanSegs(_, _, _)
\* path.Clean's element rules: drop ".", resolve ".." against what precedes it
CleanSegs(segs, out, rooted) ==
    IF segs = <<>> THEN out
    ELSE LET s == segs[1] rest == Tail(segs) IN
         IF s = <<".">> THEN CleanSegs(rest, out, rooted)
         ELSE IF s = <<".", ".">> THEN
              IF out # <<>> /\ out[Len(out)] # <<".", ".">>
              THEN CleanSegs(rest, SubSeq(out, 1, Len(out) - 1), rooted)
              ELSE IF rooted THEN CleanSegs(rest, out, rooted)
              ELSE CleanSegs(rest, Append(out, s), rooted)
         ELSE CleanSegs(rest, Append(out, s), rooted)

RECURSIVE JoinSegs(_)
JoinSegs(segs) == IF segs = <<>> THEN <<>>
                  ELSE IF Len(segs) = 1 THEN segs[1]
                  ELSE segs[1] \o <<"/">> \o JoinSegs(Tail(segs))

Clean(p) ==
    IF p = <<>> THEN <<".">>
    ELSE LET rooted == p[1] = "/"
             body == JoinSegs(CleanSegs(Segments(p), <<>>, rooted))
             r == IF rooted THEN <<"/">> \o body ELSE body
         IN IF r = <<>> THEN <<".">> ELSE r

\* filepath.Dir: everything up to the last separator, cleaned
Dir(p) == Clean(SubSeq(p, 1, LastSep(p)))

RECURSIVE StripSeps(_)
StripSeps(p) == IF p # <<>> /\ p[Len(p)] = "/" THEN StripSeps(SubSeq(p, 1, Len(p) - 1)) ELSE p

\* filepath.Base: the last element, trailing separators removed
Base(p) ==
    IF p = <<>> THEN <<".">>
    ELSE LET q == StripSeps(p)
             r == SubSeq(q, LastSep(q) + 1, Len(q))
         IN IF r = <<>> THEN <<"/">> ELSE r

\* ------------------------------------------------------------------ sessions
\* c.client.NewSession(): a fresh session, owned by the operation that made it
NewSession(owner) ==
    Append(sessions, [owner |-> owner, state |-> "open", streams |-> "unbound",
                      pty |-> "none", started |-> <<>>, result |-> Running])

SessionClose(s) == [sessions EXCEPT ![s].state = "closed"]

\* --------------------------------------------------------------------- Init
Init ==
    /\ sessions = <<>>
    /\ \E st \in [Cmds -> InitStatuses] :
         cmd = [c \in Cmds |-> [ExitStatus |-> st[c], Exited |-> FALSE,
                                statusWrites |-> 0, exitedWrites |-> 0,
                                hist |-> <<st[c]>>]]
    /\ start = [c \in Cmds |-> [pc |-> "idle", session |-> 0, err |-> "unset", log |-> <<>>]]
    /\ gor = [c \in Cmds |-> [pc |-> "none", session |-> 0, err |-> Running, spawned |-> 0,
                              log |-> <<>>]]
    /\ up = [pc |-> "idle", session |-> 0, w |-> "nil", path |-> <<>>, input |-> <<>>,
             buf |-> <<>>, err |-> "unset", log |-> <<>>, reads |-> 0, stdout |-> <<>>]
    /\ pipe = [opened |-> FALSE, broken |-> FALSE, closes |-> 0, writes |-> <<>>]
    /\ dl = [pc |-> "idle", path |-> <<>>, ret |-> "none"]
    /\ reader = [c \in Cmds |-> [pc |-> "poll", status |-> 0]]

\* -------------------------------------------------------------- comm.Start
\* session, err := c.client.NewSession(); if err != nil { return }
StartNewSession(c) ==
    /\ start[c].pc = "idle"
    /\ \E ok \in BOOLEAN :
         IF ok
         THEN /\ sessions' = NewSession(c)
              /\ start' = [start EXCEPT ![c].pc = "bind", ![c].session = Len(sessions) + 1,
                                        ![c].log = Append(@, "session")]
         ELSE /\ start' = [start EXCEPT ![c].pc = "returned", ![c].err = "NewSession"]
              /\ UNCHANGED sessions
    /\ UNCHANGED <<cmd, gor, up, pipe, dl, reader>>

\* session.Stdin = cmd.Stdin; session.Stdout = cmd.Stdout; session.Stderr = cmd.Stderr
StartBindStreams(c) ==
    /\ start[c].pc = "bind"
    /\ sessions' = [sessions EXCEPT ![start[c].session].streams = c]
    /\ start' = [start EXCEPT ![c].pc = "pty", ![c].log = Append(@, "bind")]
    /\ UNCHANGED <<cmd, gor, up, pipe, dl, reader>>

\* variant of StartRequestPty: the request's error is not looked at
StartRequestPtyIgnoresError(c) ==
    /\ start[c].pc = "pty"
    /\ \E ok \in BOOLEAN :
         /\ sessions' = [sessions EXCEPT ![start[c].session].pty = IF ok THEN "xterm" ELSE "none"]
         /\ start' = [start EXCEPT ![c].pc = "start", ![c].log = Append(@, "pty")]
    /\ UNCHANGED <<cmd, gor, up, pipe, dl, reader>>

\* if err = session.RequestPty("xterm", 80, 40, termModes); err != nil { return }
StartRequestPty(c) ==
    /\ start[c].pc = "pty"
    /\ \E ok \in BOOLEAN :
         IF ok
         THEN /\ sessions' = [sessions EXCEPT ![start[c].session].pty = "xterm"]
              /\ start' = [start EXCEPT ![c].pc = "start", ![c].log = Append(@, "pty")]
         ELSE /\ start' = [start EXCEPT ![c].pc = "returned", ![c].err = "RequestPty"]
              /\ UNCHANGED sessions
    /\ UNCHANGED <<cmd, gor, up, pipe, dl, reader>>

\* variant of StartSessionStart: the goroutine is launched before the start
\* request's error is looked at
StartSessionStartSpawnsFirst(c) ==
    /\ start[c].pc = "start"
    /\ gor' = [gor EXCEPT ![c].pc = "wait", ![c].session = start[c].session,
                          ![c].spawned = @ + 1]
    /\ \E ok \in BOOLEAN :
         IF ok
         THEN /\ sessions' = [sessions EXCEPT ![start[c].session].started = <<Command[c], "\n">>]
              /\ start' = [start EXCEPT ![c].pc = "returned", ![c].err = "nil"]
         ELSE /\ start' = [start EXCEPT ![c].pc = "returned", ![c].err = "Start"]
              /\ UNCHANGED sessions
    /\ UNCHANGED <<cmd, up, pipe, dl, reader>>

\* err = session.Start(cmd.Command + "\n"); if err != nil { return }
StartSessionStart(c) ==
    /\ start[c].pc = "start"
    /\ \E ok \in BOOLEAN :
         IF ok
         THEN /\ sessions' = [sessions EXCEPT ![start[c].session].started = <<Command[c], "\n">>]
              /\ start' = [start EXCEPT ![c].pc = "go", ![c].log = Append(@, "start")]
         ELSE /\ start' = [start EXCEPT ![c].pc = "returned", ![c].err = "Start"]
              /\ UNCHANGED sessions
    /\ UNCHANGED <<cmd, gor, up, pipe, dl, reader>>

\* variant of GoSession: the goroutine uses whichever session the client
\* created last instead of the one its own Start made
GoSessionLatest(c) == Len(sessions)

\* the session variable the goroutine's closure captures
GoSession(c) == start[c].session

\* variant of StartGo: Start itself clears the exit status before returning
StartGoResetsStatus(c) ==
    /\ start[c].pc = "go"
    /\ gor' = [gor EXCEPT ![c].pc = "wait", ![c].session = GoSession(c),
                          ![c].spawned = @ + 1]
    /\ start' = [start EXCEPT ![c].pc = "returned", ![c].err = "nil",
                              ![c].log = Append(@, "go")]
    /\ cmd' = [cmd EXCEPT ![c].ExitStatus = 0]
    /\ UNCHANGED <<sessions, up, pipe, dl, reader>>

\* go func() { ... }(); return
StartGo(c) ==
    /\ start[c].pc = "go"
    /\ gor' = [gor EXCEPT ![c].pc = "wait", ![c].session = GoSession(c),
                          ![c].spawned = @ + 1]
    /\ start' = [start EXCEPT ![c].pc = "returned", ![c].err = "nil",
                              ![c].log = Append(@, "go")]
    /\ UNCHANGED <<sessions, cmd, up, pipe, dl, reader>>

\* ------------------------------------------------- the goroutine of Start
\* variant of GoWait: Exited is set as soon as the wait returns, before the
\* exit status is stored
GoWaitFlagsFirst(c) ==
    /\ gor[c].pc = "wait"
    /\ sessions[gor[c].session].result # Running
    /\ gor' = [gor EXCEPT ![c].pc = "zero", ![c].err = sessions[gor[c].session].result,
                          ![c].log = Append(@, "wait")]
    /\ cmd' = [cmd EXCEPT ![c].Exited = TRUE]
    /\ UNCHANGED <<sessions, start, up, pipe, dl, reader>>

\* variant of GoWait: the session is closed as soon as the wait returns
\* instead of by a defer
GoWaitThenClose(c) ==
    /\ gor[c].pc = "wait"
    /\ sessions[gor[c].session].result # Running
    /\ gor' = [gor EXCEPT ![c].pc = "zero", ![c].err = sessions[gor[c].session].result,
                          ![c].log = Append(@, "wait")]
    /\ sessions' = SessionClose(gor[c].session)
    /\ UNCHANGED <<cmd, start, up, pipe, dl, reader>>

\* err := session.Wait(): blocks until the session has ended
GoWait(c) ==
    /\ gor[c].pc = "wait"
    /\ sessions[gor[c].session].result # Running
    /\ gor' = [gor EXCEPT ![c].pc = "zero", ![c].err = sessions[gor[c].session].result,
                          ![c].log = Append(@, "wait")]
    /\ UNCHANGED <<sessions, cmd, start, up, pipe, dl, reader>>

\* variant of GoSetZero: the status is not cleared first
GoSetZeroOmitted(c) ==
    /\ gor[c].pc = "zero"
    /\ gor' = [gor EXCEPT ![c].pc = "check", ![c].log = Append(@, "status")]
    /\ UNCHANGED <<sessions, cmd, start, up, pipe, dl, reader>>

\* cmd.ExitStatus = 0
GoSetZero(c) ==
    /\ gor[c].pc = "zero"
    /\ cmd' = [cmd EXCEPT ![c].ExitStatus = 0, ![c].statusWrites = @ + 1,
                          ![c].hist = Append(@, 0)]
    /\ gor' = [gor EXCEPT ![c].pc = "check", ![c].log = Append(@, "status")]
    /\ UNCHANGED <<sessions, start, up, pipe, dl, reader>>

\* variant of GoCheckErr: the typed exit error's status is not stored
GoCheckErrDropsStatus(c) ==
    /\ gor[c].pc = "check"
    /\ gor' = [gor EXCEPT ![c].pc = "exited", ![c].log = Append(@, "check")]
    /\ UNCHANGED <<sessions, cmd, start, up, pipe, dl, reader>>

\* if err != nil { exitErr, ok := err.(*ssh.ExitError); if ok { cmd.ExitStatus = exitErr.ExitStatus() } }
GoCheckErr(c) ==
    /\ gor[c].pc = "check"
    /\ IF gor[c].err.kind = "exit"
       THEN cmd' = [cmd EXCEPT ![c].ExitStatus = gor[c].err.status, ![c].statusWrites = @ + 1,
                               ![c].hist = Append(@, gor[c].err.status)]
       ELSE UNCHANGED cmd
    /\ gor' = [gor EXCEPT ![c].pc = "exited", ![c].log = Append(@, "check")]
    /\ UNCHANGED <<sessions, start, up, pipe, dl, reader>>

\* cmd.Exited = true
GoSetExited(c) ==
    /\ gor[c].pc = "exited"
    /\ cmd' = [cmd EXCEPT ![c].Exited = TRUE, ![c].exitedWrites = @ + 1]
    /\ gor' = [gor EXCEPT ![c].pc = "close", ![c].log = Append(@, "exited")]
    /\ UNCHANGED <<sessions, start, up, pipe, dl, reader>>

\* defer session.Close(), run when the goroutine's function returns
GoDeferClose(c) ==
    /\ gor[c].pc = "close"
    /\ sessions' = SessionClose(gor[c].session)
    /\ gor' = [gor EXCEPT ![c].pc = "done", ![c].log = Append(@, "close")]
    /\ UNCHANGED <<cmd, start, up, pipe, dl, reader>>

\* ------------------------------------------------------------ environment
\* the remote side of a started session ends: the command exits, or the
\* connection is lost; session.Wait reports r from then on
SessionEnds(s) ==
    /\ s \in 1..Len(sessions)
    /\ sessions[s].started # <<>>
    /\ sessions[s].state = "open"
    /\ sessions[s].result = Running
    /\ \E r \in WaitResults : sessions' = [sessions EXCEPT ![s].result = r]
    /\ UNCHANGED <<cmd, start, gor, up, pipe, dl, reader>>

\* -------------------------------------------------------------- comm.Upload
\* session, err := c.client.NewSession(); if err != nil { return err }
\* defer session.Close()
UploadNewSession(path, input) ==
    /\ up.pc = "idle"
    /\ \E ok \in BOOLEAN :
         IF ok
         THEN /\ sessions' = NewSession("upload")
              /\ up' = [up EXCEPT !.pc = "pipe", !.session = Len(sessions) + 1,
                                  !.path = path, !.input = input]
         ELSE /\ up' = [up EXCEPT !.pc = "returned", !.err = "NewSession",
                                  !.path = path, !.input = input]
              /\ UNCHANGED sessions
    /\ UNCHANGED <<cmd, start, gor, pipe, dl, reader>>

\* w, err := session.StdinPipe(); if err != nil { return err }
\* session.Stderr = stderr; session.Stdout = stdout; defer func() { ... }()
UploadStdinPipe ==
    /\ up.pc = "pipe"
    /\ \E ok \in BOOLEAN :
         IF ok
         THEN /\ pipe' = [pipe EXCEPT !.opened = TRUE]
              /\ sessions' = [sessions EXCEPT ![up.session].streams = "buffers"]
              /\ up' = [up EXCEPT !.pc = "start", !.w = "pipe"]
         ELSE /\ up' = [up EXCEPT !.pc = "deferSession", !.err = "StdinPipe"]
              /\ UNCHANGED <<sessions, pipe>>
    /\ UNCHANGED <<cmd, start, gor, dl, reader>>

\* variant of UploadSessionStart: the error of the start is kept but the
\* function goes on
UploadSessionStartGoesOn ==
    /\ up.pc = "start"
    /\ \E ok \in BOOLEAN :
         IF ok
         THEN /\ sessions' = [sessions EXCEPT ![up.session].started = <<"scp -vt ", Dir(up.path)>>]
              /\ up' = [up EXCEPT !.pc = "read", !.log = Append(@, "start")]
         ELSE /\ up' = [up EXCEPT !.pc = "read", !.err = "Start"]
              /\ UNCHANGED sessions
    /\ UNCHANGED <<cmd, start, gor, pipe, dl, reader>>

\* if err = session.Start("scp -vt " + target_dir); err != nil { return err }
UploadSessionStart ==
    /\ up.pc = "start"
    /\ \E ok \in BOOLEAN :
         IF ok
         THEN /\ sessions' = [sessions EXCEPT ![up.session].started = <<"scp -vt ", Dir(up.path)>>]
              /\ up' = [up EXCEPT !.pc = "read", !.log = Append(@, "start")]
         ELSE /\ up' = [up EXCEPT !.pc = "deferPipe", !.err = "Start"]
              /\ UNCHANGED sessions
    /\ UNCHANGED <<cmd, start, gor, pipe, dl, reader>>

\* variant of UploadReadSource: the failure path closes the pipe itself and
\* leaves w set
UploadReadSourceClosesPipe ==
    /\ up.pc = "read"
    /\ \E ok \in BOOLEAN :
         IF ok
         THEN /\ up' = [up EXCEPT !.pc = "ctl", !.buf = up.input, !.log = Append(@, "buffer"),
                                  !.reads = @ + 1]
              /\ UNCHANGED pipe
         ELSE /\ up' = [up EXCEPT !.pc = "deferPipe", !.err = "Read", !.reads = @ + 1,
                                  !.log = Append(@, "close")]
              /\ pipe' = [pipe EXCEPT !.closes = @ + 1]
    /\ UNCHANGED <<sessions, cmd, start, gor, dl, reader>>

\* if _, err = io.Copy(input_memory, input); err != nil { return err }
UploadReadSource ==
    /\ up.pc = "read"
    /\ \E ok \in BOOLEAN :
         IF ok
         THEN up' = [up EXCEPT !.pc = "ctl", !.buf = up.input, !.log = Append(@, "buffer"),
                               !.reads = @ + 1]
         ELSE up' = [up EXCEPT !.pc = "deferPipe", !.err = "Read", !.reads = @ + 1]
    /\ UNCHANGED <<sessions, cmd, start, gor, pipe, dl, reader>>

\* one Write call on the pipe: the transport may be lost before or during it,
\* and stays lost; n of the requested bytes are accepted
PipeWrite(kind, data, brk, n) ==
    [pipe EXCEPT !.broken = @ \/ brk,
                 !.writes = Append(@, [kind |-> kind, data |-> data, n |-> n,
                                       ok |-> ~(pipe.broken \/ brk)])]

\* fmt.Fprintln(w, "C0644", input_memory.Len(), target_file); the error is dropped
UploadWriteControl ==
    /\ up.pc = "ctl"
    /\ \E brk \in BOOLEAN :
         pipe' = PipeWrite("ctl", <<"C0644", Itoa(Len(up.buf)), Base(up.path)>>, brk,
                           IF pipe.broken \/ brk THEN 0 ELSE 1)
    /\ up' = [up EXCEPT !.pc = "body", !.log = Append(@, "ctl")]
    /\ UNCHANGED <<sessions, cmd, start, gor, dl, reader>>

\* variant of UploadWriteBody: the confirmation of the control line is read
\* and a non-zero one ends the upload with an error
UploadWriteBodyChecksAck ==
    /\ up.pc = "body"
    /\ IF up.stdout # <<>> /\ up.stdout[Len(up.stdout)] # 0
       THEN /\ up' = [up EXCEPT !.pc = "deferPipe", !.err = "Ack"]
            /\ UNCHANGED pipe
       ELSE /\ IF up.buf = <<>>
               THEN UNCHANGED pipe
               ELSE \E brk \in BOOLEAN :
                      \E n \in 0..Len(up.buf) :
                        /\ pipe.broken => n = 0
                        /\ (~pipe.broken /\ brk) => n < Len(up.buf)
                        /\ (~pipe.broken /\ ~brk) => n = Len(up.buf)
                        /\ pipe' = PipeWrite("body", up.buf, brk, n)
            /\ up' = [up EXCEPT !.pc = "nul", !.log = Append(@, "body")]
    /\ UNCHANGED <<sessions, cmd, start, gor, dl, reader>>

\* io.Copy(w, input_memory); the error is dropped.  An empty buffer makes no
\* Write call; a write that fails may have sent a prefix
UploadWriteBody ==
    /\ up.pc = "body"
    /\ IF up.buf = <<>>
       THEN UNCHANGED pipe
       ELSE \E brk \in BOOLEAN :
              \E n \in 0..Len(up.buf) :
                /\ pipe.broken => n = 0
                /\ (~pipe.broken /\ brk) => n < Len(up.buf)
                /\ (~pipe.broken /\ ~brk) => n = Len(up.buf)
                /\ pipe' = PipeWrite("body", up.buf, brk, n)
    /\ up' = [up EXCEPT !.pc = "nul", !.log = Append(@, "body")]
    /\ UNCHANGED <<sessions, cmd, start, gor, dl, reader>>

\* variant of UploadWriteNul: the terminator is not written
UploadWriteNulOmitted ==
    /\ up.pc = "nul"
    /\ up' = [up EXCEPT !.pc = "close", !.log = Append(@, "nul")]
    /\ UNCHANGED <<sessions, cmd, start, gor, pipe, dl, reader>>

\* fmt.Fprint(w, "\x00"); the error is dropped
UploadWriteNul ==
    /\ up.pc = "nul"
    /\ \E brk \in BOOLEAN :
         pipe' = PipeWrite("nul", <<0>>, brk, IF pipe.broken \/ brk THEN 0 ELSE 1)
    /\ up' = [up EXCEPT !.pc = "close", !.log = Append(@, "nul")]
    /\ UNCHANGED <<sessions, cmd, start, gor, dl, reader>>

\* w.Close(); w = nil
UploadClosePipe ==
    /\ up.pc = "close"
    /\ pipe' = [pipe EXCEPT !.closes = @ + 1]
    /\ up' = [up EXCEPT !.pc = "wait", !.w = "nil", !.log = Append(@, "close")]
    /\ UNCHANGED <<sessions, cmd, start, gor, dl, reader>>

\* variant of UploadWait: a typed exit error is logged and not returned
UploadWaitDropsExitError ==
    /\ up.pc = "wait"
    /\ sessions[up.session].result # Running
    /\ up' = [up EXCEPT !.pc = "deferPipe", !.log = Append(@, "wait"),
                        !.err = IF sessions[up.session].result = WaitOther
                                THEN "Wait" ELSE "nil"]
    /\ UNCHANGED <<sessions, cmd, start, gor, pipe, dl, reader>>

\* err = session.Wait(); if err != nil { ...; return err }; ...; return nil
UploadWait ==
    /\ up.pc = "wait"
    /\ sessions[up.session].result # Running
    /\ up' = [up EXCEPT !.pc = "deferPipe", !.log = Append(@, "wait"),
                        !.err = IF sessions[up.session].result = WaitNil
                                THEN "nil" ELSE "Wait"]
    /\ UNCHANGED <<sessions, cmd, start, gor, pipe, dl, reader>>

\* variant of UploadDeferPipe: the deferred close does not test w
UploadDeferPipeUnguarded ==
    /\ up.pc = "deferPipe"
    /\ pipe' = [pipe EXCEPT !.closes = @ + 1]
    /\ up' = [up EXCEPT !.pc = "deferSession", !.log = Append(@, "close")]
    /\ UNCHANGED <<sessions, cmd, start, gor, dl, reader>>

\* defer func() { if w != nil { w.Close() } }()
UploadDeferPipe ==
    /\ up.pc = "deferPipe"
    /\ IF up.w # "nil"
       THEN /\ pipe' = [pipe EXCEPT !.closes = @ + 1]
            /\ up' = [up EXCEPT !.pc = "deferSession", !.log = Append(@, "close")]
       ELSE /\ up' = [up EXCEPT !.pc = "deferSession"]
            /\ UNCHANGED pipe
    /\ UNCHANGED <<sessions, cmd, start, gor, dl, reader>>

\* defer session.Close()
UploadDeferSession ==
    /\ up.pc = "deferSession"
    /\ sessions' = SessionClose(up.session)
    /\ up' = [up EXCEPT !.pc = "returned", !.log = Append(@, "sessionclose")]
    /\ UNCHANGED <<cmd, start, gor, pipe, dl, reader>>

\* the remote sink answers each phase with a status byte, which arrives in
\* the stdout buffer of Upload: one when it starts, one after the control
\* line, one after the terminator
ReceiverAck(b) ==
    /\ up.session # 0
    /\ sessions[up.session].started # <<>>
    /\ sessions[up.session].state = "open"
    /\ Len(up.stdout) < 1 + Cardinality({i \in 1..Len(pipe.writes) :
                                           /\ pipe.writes[i].ok
                                           /\ pipe.writes[i].kind \in {"ctl", "nul"}})
    /\ up' = [up EXCEPT !.stdout = Append(@, b)]
    /\ UNCHANGED <<sessions, cmd, start, gor, pipe, dl, reader>>

\* ------------------------------------------------------------ comm.Download
\* variant of Download: an ordinary error is returned instead of panicking
DownloadReturnsError(path) ==
    /\ dl.pc = "idle"
    /\ dl' = [dl EXCEPT !.pc = "returned", !.path = path, !.ret = "error"]
    /\ UNCHANGED <<sessions, cmd, start, gor, up, pipe, reader>>

\* panic("not implemented yet"): control leaves Download by the panic, no
\* return statement is reached
Download(path) ==
    /\ dl.pc = "idle"
    /\ dl' = [dl EXCEPT !.pc = "panicked", !.path = path]
    /\ UNCHANGED <<sessions, cmd, start, gor, up, pipe, reader>>

\* ------------------------------------------- a caller polling the command
\* the caller's goroutine reads cmd.Exited until it is true.  Nothing
\* synchronises it with the goroutine of Start
ReaderPoll(c) ==
    /\ reader[c].pc = "poll"
    /\ cmd[c].Exited
    /\ reader' = [reader EXCEPT ![c].pc = "read"]
    /\ UNCHANGED <<sessions, cmd, start, gor, up, pipe, dl>>

\* it then reads cmd.ExitStatus.  The read races with the writes at lines 60
\* and 64: no write happens before it, so it may observe any value the
\* field has held, the caller's initial one included
ReaderReadStatus(c) ==
    /\ reader[c].pc = "read"
    /\ \E i \in 1..Len(cmd[c].hist) :
         reader' = [reader EXCEPT ![c].pc = "done", ![c].status = cmd[c].hist[i]]
    /\ UNCHANGED <<sessions, cmd, start, gor, up, pipe, dl>>

\* ------------------------------------------------------------ specifications
StartStep(c) ==
    \/ StartNewSession(c)
    \/ StartBindStreams(c)
    \/ StartRequestPty(c)
    \/ StartSessionStart(c)
    \/ StartGo(c)

GoStep(c) ==
    \/ GoWait(c)
    \/ GoSetZero(c)
    \/ GoCheckErr(c)
    \/ GoSetExited(c)
    \/ GoDeferClose(c)

UploadStep ==
    \/ \E path \in Paths, input \in Payloads : UploadNewSession(path, input)
    \/ UploadStdinPipe
    \/ UploadSessionStart
    \/ UploadReadSource
    \/ UploadWriteControl
    \/ UploadWriteBody
    \/ UploadWriteNul
    \/ UploadClosePipe
    \/ UploadWait
    \/ UploadDeferPipe
    \/ UploadDeferSession

Env == \E s \in 1..Len(sessions) : SessionEnds(s)

\* Start calls (and their goroutines) running concurrently on one connection
StartNext == (\E c \in Cmds : StartStep(c) \/ GoStep(c)) \/ Env

\* one Upload call on the connection
UploadNext == UploadStep \/ Env

Next == (\E c \in Cmds : StartStep(c) \/ GoStep(c)) \/ UploadStep \/ Env

\* the whole communicator; its state space is the product of the two below,
\* which share nothing but the client's list of sessions
Spec == Init /\ [][Next]_vars

StartSpec == Init /\ [][StartNext]_vars

UploadSpec == Init /\ [][UploadNext]_vars

\* Start calls, with Download called on the same connection
DownloadNext == StartNext \/ (\E path \in Paths : Download(path))

DownloadSpec == Init /\ [][DownloadNext]_vars

\* Start calls, each command polled by a goroutine of the caller
ReaderStep(c) == ReaderPoll(c) \/ ReaderReadStatus(c)

PollNext == StartNext \/ (\E c \in Cmds : ReaderStep(c))

PollSpec == Init /\ [][PollNext]_vars

\* one Upload call whose remote sink sends its status bytes
AckNext == UploadNext \/ (\E b \in StatusBytes : ReceiverAck(b))

AckSpec == Init /\ [][AckNext]_vars

\* the goroutine is scheduled, and the session's wait eventually returns
FairStartSpec ==
    /\ StartSpec
    /\ \A c \in Cmds : WF_vars(GoStep(c))
    /\ \A s \in 1..Cardinality(Cmds) : WF_vars(SessionEnds(s))

\* ------------------------------------------------------------------ claims
\* what Start(c) created and what its wait reports
OwnSession(c) == start[c].session
OwnResult(c) == sessions[OwnSession(c)].result
StartedOk(c) == start[c].pc = "returned" /\ start[c].err = "nil"
StartFailed(c) == start[c].pc = "returned" /\ start[c].err # "nil"

\* C1: once Start has returned nil, Exited eventually becomes true (the
\* goroutine is scheduled and the wait returns); Exited is written once and
\* never goes back to false; ExitStatus does not change while Exited is true.
C1_ExitedOnceAndStable ==
    /\ \A c \in Cmds : StartedOk(c) ~> cmd[c].Exited
    /\ [](\A c \in Cmds : cmd[c].exitedWrites <= 1)
    /\ [][\A c \in Cmds : cmd[c].Exited =>
             /\ cmd'[c].Exited
             /\ cmd'[c].ExitStatus = cmd[c].ExitStatus]_vars

C1_Witness ==
    \E c \in Cmds : /\ StartedOk(c) /\ gor[c].pc = "done"
                    /\ cmd[c].Exited /\ cmd[c].ExitStatus = MaxExitStatus

\* C2: a finished command whose wait reported the typed exit error with
\* status n has Exited = TRUE and ExitStatus = n (non-zero); one whose wait
\* reported no error has Exited = TRUE and ExitStatus = 0.
C2_ExitStatusMatchesWait ==
    \A c \in Cmds : gor[c].pc = "done" =>
        /\ cmd[c].Exited
        /\ OwnResult(c).kind = "exit" =>
             cmd[c].ExitStatus = OwnResult(c).status /\ cmd[c].ExitStatus # 0
        /\ OwnResult(c) = WaitNil => cmd[c].ExitStatus = 0

C2_Witness ==
    /\ gor["c1"].pc = "done" /\ OwnResult("c1") = WaitNil
    /\ gor["c2"].pc = "done" /\ OwnResult("c2") = ExitError(1)

\* C3: every session is closed once the operation that created it is over:
\* Upload has returned, Start has returned an error, or Start's goroutine
\* has finished.
C3_SessionsClosedAtEnd ==
    \A s \in 1..Len(sessions) :
        LET o == sessions[s].owner
            over == IF o = "upload" THEN up.pc = "returned"
                    ELSE StartFailed(o) \/ gor[o].pc = "done"
        IN over => sessions[s].state = "closed"

\* C4: the write-pipe is never closed twice, and an Upload that obtained it
\* has closed it exactly once when it returns.
C4_PipeClosedExactlyOnce ==
    /\ pipe.closes <= 1
    /\ (up.pc = "returned" /\ pipe.opened) => pipe.closes = 1

C4_Witness == up.pc = "returned" /\ up.err = "Read" /\ pipe.closes = 1

\* the write calls of one kind made on the pipe so far
WritesOf(kind) == SelectSeq(pipe.writes, LAMBDA wr : wr.kind = kind)
\* payload bytes the pipe accepted
Streamed == IF WritesOf("body") = <<>> THEN 0 ELSE WritesOf("body")[1].n

\* C5: once the terminator has been written, the length the control line
\* declared equals the number of payload bytes written to the pipe.
C5_DeclaredEqualsStreamed ==
    WritesOf("nul") # <<>> => Atoi(WritesOf("ctl")[1].data[2]) = Streamed

\* C8: an Upload in which a write to the pipe failed returns an error.
C8_WriteFailureReturned ==
    (up.pc = "returned" /\ \E i \in 1..Len(pipe.writes) : ~pipe.writes[i].ok)
        => up.err # "nil"

\* the events of an Upload that runs to the end, in the order of the code
TransferOrder == <<"start", "buffer", "ctl", "body", "nul", "close", "wait", "sessionclose">>
IsPrefix(a, b) == Len(a) <= Len(b) /\ a = SubSeq(b, 1, Len(a))
\* directory part and file name of each path, as path/filepath documents them
PartsOf(p) ==
    CASE p = <<"/", "h", "/", "u", "/", "o">> -> [dir |-> <<"/", "h", "/", "u">>, file |-> <<"o">>]
      [] p = <<"o">> -> [dir |-> <<".">>, file |-> <<"o">>]
      [] p = <<"d", "/", "/", "o">> -> [dir |-> <<"d">>, file |-> <<"o">>]
      [] p = <<"/", "o">> -> [dir |-> <<"/">>, file |-> <<"o">>]
      [] p = <<"d", "/", ".", ".", "/", "o">> -> [dir |-> <<".">>, file |-> <<"o">>]
      [] p = <<"d", "/">> -> [dir |-> <<"d">>, file |-> <<"d">>]
\* the write calls a complete transfer of up.input to up.path makes
ExpectedWrites ==
    <<[kind |-> "ctl", data |-> <<"C0644", <<Len(up.input)>>, PartsOf(up.path).file>>]>>
    \o (IF up.input = <<>> THEN <<>> ELSE <<[kind |-> "body", data |-> up.input]>>)
    \o <<[kind |-> "nul", data |-> <<0>>]>>
CallsMade == [i \in 1..Len(pipe.writes) |->
                 [kind |-> pipe.writes[i].kind, data |-> pipe.writes[i].data]]

Logged(e) == \E i \in 1..Len(up.log) : up.log[i] = e

\* C6: an Upload that reaches the transfer phase has started the receiver in
\* sink mode on the directory part of the path and buffered the whole source;
\* it then issues the write of the control line "C0644 <length> <filename>",
\* of the payload and of one NUL, closes the pipe and then waits, each once
\* and in this order; no write is issued after the close and the wait does
\* not start before it.  (Whether a write call succeeds is C5's and C8's.)
C6_TransferOrder ==
    Logged("ctl") =>
        /\ IsPrefix(up.log, TransferOrder)
        /\ sessions[up.session].started = <<"scp -vt ", PartsOf(up.path).dir>>
        /\ up.buf = up.input
        /\ CallsMade # <<>> /\ IsPrefix(CallsMade, ExpectedWrites)
        /\ Logged("nul") => CallsMade = ExpectedWrites
        /\ pipe.closes = (IF Logged("close") THEN 1 ELSE 0)

C6_Witness ==
    /\ up.pc = "returned" /\ up.err = "nil"
    /\ up.path = <<"/", "h", "/", "u", "/", "o">> /\ up.input = <<65, 0>>
    /\ \A i \in 1..Len(pipe.writes) : pipe.writes[i].ok

\* whether Upload has reached a return statement, and the wait's outcome
UploadReturning == up.pc \in {"deferPipe", "deferSession", "returned"}
Waited == Logged("wait")

\* C7: Upload returns nil exactly when it performed the wait and the wait
\* reported no error; a wait that fails (non-zero exit or anything else)
\* makes Upload return an error.
C7_WaitDecidesResult ==
    UploadReturning =>
        /\ (Waited /\ sessions[up.session].result # WaitNil) => up.err # "nil"
        /\ up.err = "nil" => (Waited /\ sessions[up.session].result = WaitNil)
        /\ up.err # "unset"

C7_Witness ==
    /\ up.pc = "returned" /\ up.err = "Wait"
    /\ sessions[up.session].result = ExitError(1)

\* C9: a Start that returned an error spawned no goroutine and wrote neither
\* Exited nor ExitStatus; a Start that returned nil spawned exactly one; no
\* goroutine exists for a Start still in its setup.
C9_NoTaskOnSetupFailure ==
    \A c \in Cmds :
        /\ StartFailed(c) =>
             /\ gor[c].spawned = 0 /\ gor[c].pc = "none"
             /\ cmd[c].statusWrites = 0 /\ cmd[c].exitedWrites = 0 /\ ~cmd[c].Exited
        /\ StartedOk(c) => gor[c].spawned = 1
        /\ start[c].pc # "returned" => gor[c].spawned = 0

C9_Witness ==
    /\ StartFailed("c1") /\ start["c1"].err = "RequestPty"
    /\ StartedOk("c2") /\ gor["c2"].spawned = 1

\* the exit status the code derives from a wait result
StatusOf(r) == IF r.kind = "exit" THEN r.status ELSE 0

\* C10: concurrent Starts on distinct commands use distinct sessions, each
\* created for that command; a goroutine waits on and closes only the session
\* of its own Start, and a command's ExitStatus and Exited come from the
\* outcome of its own session.
C10_SessionsIndependent ==
    \A c \in Cmds :
        /\ \A d \in Cmds \ {c} : OwnSession(c) # 0 => OwnSession(c) # OwnSession(d)
        /\ OwnSession(c) # 0 => sessions[OwnSession(c)].owner = c
        /\ gor[c].pc # "none" => gor[c].session = OwnSession(c)
        /\ gor[c].pc \notin {"none", "wait"} => gor[c].err = OwnResult(c)
        /\ (OwnSession(c) # 0 /\ sessions[OwnSession(c)].state = "closed") => gor[c].pc = "done"
        /\ cmd[c].Exited => cmd[c].ExitStatus = StatusOf(OwnResult(c))

C10_Witness ==
    /\ OwnSession("c1") = 2 /\ OwnSession("c2") = 1
    /\ gor["c1"].pc = "done" /\ gor["c2"].pc = "done"
    /\ cmd["c1"].ExitStatus = 1 /\ cmd["c2"].ExitStatus = 0
    /\ OwnResult("c2") = WaitOther

\* C11 as stated: the finished goroutine has written Exited once and
\* ExitStatus once, whatever the wait reported.
C11_EachFieldWrittenOnce ==
    \A c \in Cmds : gor[c].pc = "done" =>
        cmd[c].exitedWrites = 1 /\ cmd[c].statusWrites = 1

\* C11, amended: the finished goroutine has written Exited exactly once and
\* ExitStatus once, or twice (0, then the status) when the wait reported the
\* typed exit error; the fields of a command change only in a step of its
\* own goroutine's three writing statements.
C11_WritesOnlyByGoroutine ==
    /\ [](\A c \in Cmds : gor[c].pc = "done" =>
             /\ cmd[c].exitedWrites = 1
             /\ cmd[c].statusWrites = (IF OwnResult(c).kind = "exit" THEN 2 ELSE 1))
    /\ [](\A c \in Cmds : gor[c].pc \in {"none", "wait", "zero"} =>
             cmd[c].exitedWrites = 0 /\ cmd[c].statusWrites = 0)
    /\ [][\A c \in Cmds : cmd'[c] # cmd[c] =>
             /\ gor[c].pc \in {"zero", "check", "exited"}
             /\ gor'[c].pc # gor[c].pc]_vars

C11_Witness ==
    /\ gor["c1"].pc = "done" /\ cmd["c1"].statusWrites = 2
    /\ gor["c2"].pc = "done" /\ cmd["c2"].statusWrites = 1 /\ OwnResult("c2") = WaitOther

\* C12: every Download ends in the panic: no return value is produced, no
\* session is created for it, and the step changes nothing of the
\* connection, the commands or an upload.
C12_DownloadAlwaysPanics ==
    /\ [](dl.pc \in {"idle", "panicked"} /\ dl.ret = "none")
    /\ [](\A s \in 1..Len(sessions) : sessions[s].owner \in Cmds)
    /\ [][dl' # dl => (dl'.pc = "panicked" /\ UNCHANGED <<sessions, cmd, start, gor, up, pipe>>)]_vars

C12_Witness ==
    /\ dl.pc = "panicked" /\ dl.path = <<"/", "h", "/", "u", "/", "o">>
    /\ Len(sessions) = 2 /\ gor["c1"].pc = "wait"

\* the steps of a Start that succeeds, in the order of the code
StartOrder == <<"session", "bind", "pty", "start", "go">>

\* C13: the steps of Start happen in the order session created, streams
\* bound, pty requested, start requested; a Start that returned nil has done
\* all of them, its session is bound to the command's streams, has the pty
\* and was started with the command text and a newline.  (That Start does
\* not wait is the witness: it has returned nil while the command still runs.)
C13_ReturnsAfterSetup ==
    \A c \in Cmds :
        /\ IsPrefix(start[c].log, StartOrder)
        /\ StartedOk(c) =>
             /\ start[c].log = StartOrder
             /\ sessions[OwnSession(c)].streams = c
             /\ sessions[OwnSession(c)].pty = "xterm"
             /\ sessions[OwnSession(c)].started = <<Command[c], "\n">>

C13_Witness ==
    \E c \in Cmds : /\ StartedOk(c) /\ ~cmd[c].Exited
                    /\ OwnResult(c) = Running /\ gor[c].pc = "wait"

\* C14 as stated: whenever Exited is true the session is already closed.
C14_ClosedBeforeExited ==
    \A c \in Cmds : cmd[c].Exited => sessions[OwnSession(c)].state = "closed"

\* the steps of the goroutine, in the order of the code
GoOrder == <<"wait", "status", "check", "exited", "close">>

\* C14, amended: the goroutine waits for the command to end, sets the exit
\* status, marks the command exited and only then closes the session (the
\* close is deferred); whenever the session is closed Exited is already true.
C14_ClosedAfterExited ==
    \A c \in Cmds :
        /\ IsPrefix(gor[c].log, GoOrder)
        /\ gor[c].log # <<>> => OwnResult(c) # Running
        /\ cmd[c].Exited <=> Len(gor[c].log) >= 4
        /\ cmd[c].statusWrites >= 1 <=> Len(gor[c].log) >= 2
        /\ (OwnSession(c) # 0 /\ sessions[OwnSession(c)].state = "closed") =>
               cmd[c].Exited /\ gor[c].log = GoOrder

C14_Witness ==
    \E c \in Cmds : /\ cmd[c].Exited /\ sessions[OwnSession(c)].state = "open"
                    /\ gor[c].pc = "close"

C16_OtherErrorLeavesZero ==
    \A c \in Cmds :
        (gor[c].pc \in {"close", "done"} /\ OwnResult(c) = WaitOther) =>
            /\ cmd[c].Exited /\ cmd[c].ExitStatus = 0
            /\ gor[c].err = WaitOther
            /\ StartedOk(c)

C16_Witness ==
    \E c \in Cmds : /\ gor[c].pc = "done" /\ OwnResult(c) = WaitOther
                    /\ cmd[c].hist[1] = 1 /\ cmd[c].ExitStatus = 0

\* C17: an Upload whose session creation, pipe opening or receiver start
\* failed is on its way out with that error: it has not read the source, has
\* written nothing to the pipe and does not wait.
C17_SetupFailureReturnsAtOnce ==
    up.err \in {"NewSession", "StdinPipe", "Start"} =>
        /\ up.pc \in {"deferPipe", "deferSession", "returned"}
        /\ up.reads = 0 /\ up.buf = <<>>
        /\ pipe.writes = <<>>
        /\ ~Logged("buffer") /\ ~Logged("ctl") /\ ~Logged("wait")
        /\ up.err = "NewSession" => (up.pc = "returned" /\ up.session = 0)
        /\ up.err = "StdinPipe" => ~pipe.opened

C17_Witness == up.pc = "returned" /\ up.err = "Start" /\ pipe.opened /\ up.reads = 0

\* C18: whatever status bytes the receiver has sent, an Upload that began
\* the transfer goes through control line, payload, terminator, close and
\* wait, writes what the path and the payload alone determine, and returns
\* nil exactly when the wait reported no error.
C18_StatusBytesIgnored ==
    /\ \A i \in 1..Len(up.stdout) : up.stdout[i] \in StatusBytes
    /\ Logged("ctl") => IsPrefix(up.log, TransferOrder)
    /\ Logged("nul") => CallsMade = ExpectedWrites
    /\ (UploadReturning /\ Logged("ctl")) =>
          /\ Waited /\ pipe.closes = 1
          /\ up.err \in {"nil", "Wait"}
          /\ up.err = "nil" <=> sessions[up.session].result = WaitNil

C18_Witness ==
    /\ up.pc = "returned" /\ up.err = "nil"
    /\ up.stdout = <<0, 2, 1>> /\ up.input = <<65>>

\* the events of an Upload whose source fails to read
ReadFailureOrder == <<"start", "close", "sessionclose">>

\* C19: an Upload whose source failed to read returns that error having
\* written nothing to the pipe and without waiting; the pipe is closed
\* once, and before the session is.
C19_ReadFailure ==
    up.err = "Read" =>
        /\ up.pc \in {"deferPipe", "deferSession", "returned"}
        /\ up.reads = 1
        /\ pipe.writes = <<>> /\ ~Waited
        /\ IsPrefix(up.log, ReadFailureOrder)
        /\ pipe.closes = (IF Logged("close") THEN 1 ELSE 0)
        /\ up.pc = "returned" =>
             /\ up.log = ReadFailureOrder
             /\ sessions[up.session].state = "closed"

C19_Witness ==
    /\ up.pc = "returned" /\ up.err = "Read" /\ up.input = <<65>>
    /\ sessions[up.session].state = "closed" /\ sessions[up.session].started # <<>>

====
